---- MODULE Spec2Model ----
(***************************************************************************)
(* Route dispatch engine of zrest (src/server/index.ts): path patterns,    *)
(* the routing trie built by the Router constructor, Router.fetch and      *)
(* Endpoint.fetch.                                                         *)
(*                                                                         *)
(* Representation of strings that hold paths: a path string is the         *)
(* sequence of pieces that String.split("/") returns for it, so "/a/b" is  *)
(* <<"", "a", "b">>, "/" is <<"", "">> and "" is <<"">>.  A piece never     *)
(* contains "/".  The map is a bijection between strings and non-empty     *)
(* sequences of pieces, so split("/") itself is the identity on it.        *)
(***************************************************************************)
EXTENDS Integers, Sequences, FiniteSets, TLC

\* ------------------------------------------------------------------ bounds
MaxRoutes == 2
MaxSegs == 2

\* ------------------------------------------------------- finite alphabets
Methods == {"GET", "POST"}
Literals == {"a", "b"}
ParamSegs == {":x", ":y"}
Segs == Literals \cup ParamSegs
Tokens == {"", "a", "b"}
QueryKeys == {"x", "q"}
QueryVals == {"b", "7"}

\* pathPart[0] === ":"
IsParamPart(s) == s \in ParamSegs

\* pathPart.slice(1) of a parameter segment
ParamName(s) == CASE s = ":x" -> "x" [] s = ":y" -> "y" [] OTHER -> s

\* decodeURIComponent: percent escapes are decoded, other text is kept;
\* the argument undefined (index past the end of the array) gives "undefined"
Undefined == "<undefined>"
decodeURIComponent(t) ==
    CASE t = "%63" -> "c"
      [] t = "%2F" -> "/"
      [] t = Undefined -> "undefined"
      [] OTHER -> t

\* array[i], undefined past the end
At(parts, i) == IF i >= 1 /\ i <= Len(parts) THEN parts[i] ELSE Undefined

SeqsUpTo(S, n) == UNION {[1..k -> S] : k \in 1..n}

\* path.replace(/^\//, "").replace(/\/$/, "") followed by split("/")
cleanPath(path) ==
    LET a == IF Len(path) >= 2 /\ path[1] = "" THEN Tail(path) ELSE path
    IN  IF Len(a) >= 2 /\ a[Len(a)] = "" THEN SubSeq(a, 1, Len(a) - 1) ELSE a

\* records (plain objects): functions from a finite set of keys to strings
EmptyRec == [k \in {} |-> ""]
Put(rec, k, v) == [n \in DOMAIN rec \cup {k} |-> IF n = k THEN v ELSE rec[n]]

\* the spread with its two operands exchanged
SpreadQueryWins(first, second) ==
    [k \in DOMAIN first \cup DOMAIN second |->
        IF k \in DOMAIN first THEN first[k] ELSE second[k]]

\* { ...first, ...second }
Spread(first, second) ==
    [k \in DOMAIN first \cup DOMAIN second |->
        IF k \in DOMAIN second THEN second[k] ELSE first[k]]

NoMatch == [match |-> FALSE, params |-> EmptyRec]

RECURSIVE parsePathFrom(_, _, _, _)
parsePathFrom(specParts, pathParts, i, result) ==
    IF i > Len(specParts) THEN [match |-> TRUE, params |-> result]
    ELSE IF IsParamPart(specParts[i])
         THEN parsePathFrom(specParts, pathParts, i + 1,
                  Put(result, ParamName(specParts[i]),
                      decodeURIComponent(At(pathParts, i))))
         ELSE IF specParts[i] # At(pathParts, i)
              THEN NoMatch
              ELSE parsePathFrom(specParts, pathParts, i + 1, result)

parsePath(spec, path) == parsePathFrom(cleanPath(spec), cleanPath(path), 1, EmptyRec)

\* spec.split("/").filter(startsWith(":")).map(slice(1)), as a set of names
extractPathParams(spec) ==
    {ParamName(spec[i]) : i \in {j \in 1..Len(spec) : IsParamPart(spec[j])}}

\* ------------------------------------------------------------- endpoints
\* inputSchema.params is undefined, or a z.object declaring a set of fields
NoSchema == [declared |-> FALSE, fields |-> {}]
ZObject(fields) == [declared |-> TRUE, fields |-> fields]

\* outputSchema is undefined, or an object with one schema per status
NoOutput == [declared |-> FALSE, statuses |-> {}]
OutputSchema(statuses) == [declared |-> TRUE, statuses |-> statuses]

\* new Endpoint(method, path, inputSchema, implementation): the constructor
\* stores its arguments and checks nothing; outputSchema is left out
Endpoint(method, path, params, body) ==
    [method |-> method, path |-> path, params |-> params, body |-> body,
     output |-> NoOutput]

RoutePaths == {<<"">> \o s : s \in SeqsUpTo(Segs, MaxSegs)}

\* endpoints whose params schema declares exactly the path parameters
PlainEndpoints ==
    {Endpoint(m, p, ZObject(extractPathParams(p)), FALSE) : m \in Methods, p \in RoutePaths}

\* ------------------------------------------------------------------ trie
\* A RouterPath tree is the function from the key sequence of each node
\* (root = <<>>) to the node's methods map; children.get(k) of node n is
\* defined iff Append(n, k) is a node.  The key null is NullKey.
NullKey == "<null>"
RootOnly == [n \in {<<>>} |-> EmptyRec]

\* the walk keyed by the raw segment, parameter names kept
TrieKeyNamed(path) == cleanPath(path)

\* cleanPath(route.path).split("/") with pathPart[0] === ":" ? null : pathPart
TrieKey(path) ==
    LET parts == cleanPath(path)
    IN  [i \in 1..Len(parts) |-> IF IsParamPart(parts[i]) THEN NullKey ELSE parts[i]]

Prefixes(key) == {SubSeq(key, 1, k) : k \in 0..Len(key)}

\* the walk of one route, creating the missing nodes
Descend(t, key) ==
    [n \in DOMAIN t \cup Prefixes(key) |-> IF n \in DOMAIN t THEN t[n] ELSE EmptyRec]

\* path.methods.has(route.method)
HasMethod(node, method) == method \in DOMAIN node

\* the body of the constructor's loop for routes[i]
RECURSIVE Construct(_, _, _)
Construct(rs, i, t) ==
    IF i > Len(rs) THEN [ok |-> TRUE, trie |-> t]
    ELSE LET key == TrieKey(rs[i].path)
             t1 == Descend(t, key)
         IN  IF HasMethod(t1[key], rs[i].method)
             THEN [ok |-> FALSE, trie |-> RootOnly]
             ELSE Construct(rs, i + 1,
                      [t1 EXCEPT ![key] = Put(@, rs[i].method, i)])

\* new Router(routes)
NewRouter(rs) == Construct(rs, 1, RootOnly)

\* -------------------------------------------------------------- requests
Pathnames == {<<"">> \o s : s \in SeqsUpTo(Tokens, MaxSegs)}
Queries == {EmptyRec} \cup UNION {[{k} -> QueryVals] : k \in QueryKeys}

Request(method, pathname, query, json) ==
    [method |-> method, pathname |-> pathname, query |-> query, json |-> json]

PlainRequests == {Request(m, p, EmptyRec, TRUE) : m \in Methods, p \in Pathnames}

\* what a schema's parse does with its argument: returns, throws a ZodError,
\* throws another Error, or throws a value that is not an Error
Verdicts == {"ok", "ZodError", "Error", "thrown"}

\* ------------------------------------------------------------ responses
Outcome(resp, invoked, parsed) == [resp |-> resp, invoked |-> invoked, parsed |-> parsed]

Status(resp) ==
    CASE resp \in {"notFoundResponse", "endpoint404"} -> 404
      [] resp = "methodNotAllowedResponse" -> 405
      [] resp = "endpoint400" -> 400
      [] resp = "handler" -> 200
      [] OTHER -> 0

\* the catch clause of Endpoint.fetch
Caught(verdict) == IF verdict \in {"ZodError", "Error"} THEN "endpoint400" ELSE "rejected"

\* Endpoint.fetch without the body schema's verdict stopping the call
EndpointFetchUnchecked(ep, idx, rq, pv, bv) ==
    LET pathParams == parsePath(ep.path, rq.pathname)
        merged == Spread(rq.query, pathParams.params)
        pParse == IF ~ep.params.declared THEN <<>>
                  ELSE <<[schema |-> "params", input |-> merged, verdict |-> pv]>>
        bParse == <<[schema |-> "body", input |-> EmptyRec, verdict |-> bv]>>
        call == <<[route |-> idx, pathParams |-> pathParams.params]>>
    IN  IF ~pathParams.match THEN Outcome("endpoint404", <<>>, <<>>)
        ELSE IF ep.params.declared /\ pv # "ok" THEN Outcome(Caught(pv), <<>>, pParse)
        ELSE IF ~ep.body THEN Outcome("handler", call, pParse)
        ELSE IF ~rq.json THEN Outcome("endpoint400", <<>>, pParse)
        ELSE Outcome("handler", call, pParse \o bParse)

\* Endpoint.fetch of routes[idx] = ep
EndpointFetch(ep, idx, rq, pv, bv) ==
    LET pathParams == parsePath(ep.path, rq.pathname)
        merged == Spread(rq.query, pathParams.params)
        pParse == IF ~ep.params.declared THEN <<>>
                  ELSE <<[schema |-> "params", input |-> merged, verdict |-> pv]>>
        bParse == <<[schema |-> "body", input |-> EmptyRec, verdict |-> bv]>>
        call == <<[route |-> idx, pathParams |-> pathParams.params]>>
    IN  IF ~pathParams.match THEN Outcome("endpoint404", <<>>, <<>>)
        ELSE IF ep.params.declared /\ pv # "ok" THEN Outcome(Caught(pv), <<>>, pParse)
        ELSE IF ~ep.body THEN Outcome("handler", call, pParse)
        ELSE IF ~rq.json THEN Outcome("endpoint400", <<>>, pParse)
        ELSE IF bv # "ok" THEN Outcome(Caught(bv), <<>>, pParse \o bParse)
        ELSE Outcome("handler", call, pParse \o bParse)

\* the lookup with the parameter child tried first
ChildParamFirst(t, node, pathPart) ==
    IF Append(node, "<null>") \in DOMAIN t THEN Append(node, "<null>")
    ELSE IF Append(node, pathPart) \in DOMAIN t THEN Append(node, pathPart)
    ELSE <<"<none>">>

\* path.children.get(pathPart) ?? path.children.get(null)
NoNode == <<"<none>">>
Child(t, node, pathPart) ==
    IF Append(node, pathPart) \in DOMAIN t THEN Append(node, pathPart)
    ELSE IF Append(node, NullKey) \in DOMAIN t THEN Append(node, NullKey)
    ELSE NoNode

RECURSIVE Walk(_, _, _, _)
Walk(t, node, pathParts, i) ==
    IF i > Len(pathParts) THEN node
    ELSE LET newPath == Child(t, node, pathParts[i])
         IN  IF newPath = NoNode THEN NoNode ELSE Walk(t, newPath, pathParts, i + 1)

\* Router.fetch
RouterFetch(rs, t, rq, pv, bv) ==
    LET path == Walk(t, <<>>, cleanPath(rq.pathname), 1)
    IN  IF path = NoNode THEN Outcome("notFoundResponse", <<>>, <<>>)
        ELSE IF ~HasMethod(t[path], rq.method)
             THEN Outcome("methodNotAllowedResponse", <<>>, <<>>)
             ELSE EndpointFetch(rs[t[path][rq.method]], t[path][rq.method], rq, pv, bv)

\* --------------------------------------------------------------- openapi
\* the replacement "{$1}" of a parameter part
Brace(s) == CASE s = ":x" -> "{x}" [] s = ":y" -> "{y}" [] OTHER -> s

\* path.replace(/\/:(.*?)(\/|$)/g, "/{$1}$2") on the parts of path: a match
\* starts at the slash before a parameter part and takes the slash after
\* it, so that the search goes on behind that slash; free says that the
\* slash before part i has not been taken by the match before it
RECURSIVE Replace(_, _, _)
Replace(parts, i, free) ==
    IF i > Len(parts) THEN <<>>
    ELSE IF free /\ IsParamPart(parts[i])
         THEN <<Brace(parts[i])>> \o Replace(parts, i + 1, FALSE)
         ELSE <<parts[i]>> \o Replace(parts, i + 1, TRUE)

pathToOpenAPIPath(path) == Replace(path, 1, FALSE)

lowercase(method) == CASE method = "GET" -> "get" [] method = "POST" -> "post" [] OTHER -> method

\* Object.entries(paramsSchema.properties): the fields, in a fixed order
RECURSIVE Entries(_)
Entries(fields) ==
    IF fields = {} THEN <<>>
    ELSE LET f == CHOOSE g \in fields : TRUE IN <<f>> \o Entries(fields \ {f})

\* route.inputSchema.params ?? z.object({})
ParamsOrEmpty(route) == IF route.params.declared THEN route.params ELSE ZObject({})

Parameters(route) ==
    LET keys == Entries(ParamsOrEmpty(route).fields)
        pathParams == extractPathParams(route.path)
    IN  [k \in 1..Len(keys) |->
            [in |-> IF keys[k] \in pathParams THEN "path" ELSE "query", name |-> keys[k]]]

Operation(route) ==
    [parameters |-> Parameters(route), requestBody |-> route.body,
     responses |-> route.output.statuses]

\* outputSchema === undefined
MissingOutputIgnored(route) == FALSE

MissingOutput(route) == ~route.output.declared

\* the loop of Router.openapi from route i on, paths being doc.paths so far;
\* a throw leaves nothing of the document
NoDoc == [result |-> "none", paths |-> EmptyRec]
RECURSIVE OpenapiFrom(_, _, _)
OpenapiFrom(rs, i, paths) ==
    IF i > Len(rs) THEN [result |-> "returned", paths |-> paths]
    ELSE LET route == rs[i]
             path == pathToOpenAPIPath(route.path)
             item == IF path \in DOMAIN paths THEN paths[path] ELSE EmptyRec
         IN  IF MissingOutput(route) THEN [result |-> "threw", paths |-> EmptyRec]
             ELSE OpenapiFrom(rs, i + 1,
                      Put(paths, path, Put(item, lowercase(route.method), Operation(route))))

\* --------------------------------------------------------------- headers
\* A plain headers object is a sequence of <<key, value>> in insertion
\* order; a Headers collection is a function from the lower-cased name to
\* the sequence of the values given for it (get() joins them with ", ").
Lower(name) ==
    CASE name = "X-ZREST" -> "x-zrest"
      [] name = "Content-Type" -> "content-type"
      [] name = "Set-Cookie" -> "set-cookie"
      [] OTHER -> name

\* { ...object, ...more }: a key given again keeps its place and takes the new value
RECURSIVE SpreadInto(_, _)
SpreadInto(object, more) ==
    IF more = <<>> THEN object
    ELSE LET e == Head(more)
             at == {k \in 1..Len(object) : object[k][1] = e[1]}
         IN  SpreadInto(IF at = {} THEN Append(object, e)
                        ELSE [k \in 1..Len(object) |-> IF k \in at THEN e ELSE object[k]],
                        Tail(more))

\* new Headers(object): every pair is appended under its lower-cased name
RECURSIVE NewHeaders(_)
NewHeaders(object) ==
    IF object = <<>> THEN EmptyRec
    ELSE LET front == NewHeaders(SubSeq(object, 1, Len(object) - 1))
             e == object[Len(object)]
             name == Lower(e[1])
         IN  [n \in DOMAIN front \cup {name} |->
                 IF n = name
                 THEN (IF n \in DOMAIN front THEN front[n] ELSE <<>>) \o <<e[2]>>
                 ELSE front[n]]

\* the responseInit a handler gives to new TypedResponse: none, a plain
\* headers object, or a Headers instance (which has no own enumerable
\* property, so that spreading it adds nothing)
NoInit == [kind |-> "none", entries |-> <<>>]
PlainInit(entries) == [kind |-> "object", entries |-> entries]
HeadersInit(entries) == [kind |-> "Headers", entries |-> entries]
ResponseInits ==
    {NoInit, PlainInit(<<<<"Set-Cookie", "s">>>>), PlainInit(<<<<"X-ZREST", "0">>>>),
     PlainInit(<<<<"x-zrest", "0">>>>), HeadersInit(<<<<"Set-Cookie", "s">>>>)}

\* ...responseInit?.headers
SpreadOf(init) == IF init.kind = "object" THEN init.entries ELSE <<>>

\* the headers of new TypedResponse(status, jsonBody, responseInit)
TypedResponseHeaders(init) ==
    NewHeaders(SpreadInto(<<<<"Content-Type", "application/json">>, <<"X-ZREST", "1">>>>,
                          SpreadOf(init)))

\* the headers of the response a fetch ends with
HeadersOf(kind, init) ==
    CASE kind = "handler" -> TypedResponseHeaders(init)
      [] kind = "endpoint400" -> NewHeaders(<<<<"Content-Type", "application/json">>>>)
      [] kind \in {"notFoundResponse", "methodNotAllowedResponse", "endpoint404"} ->
             NewHeaders(<<<<"Content-Type", "text/plain;charset=UTF-8">>>>)
      [] OTHER -> EmptyRec

\* RestClient.do in strict mode: response.headers.get("X-ZREST") === null
StrictRejects(hs) == "x-zrest" \notin DOMAIN hs

\* -------------------------------------------------------------- adapters
\* the two Response objects of the module, which every router returns
Shared == {"notFoundResponse", "methodNotAllowedResponse"}

\* the body text of a response
Body(kind) ==
    CASE kind \in {"notFoundResponse", "endpoint404"} -> "Not Found"
      [] kind = "methodNotAllowedResponse" -> "Method Not Allowed"
      [] kind \in {"endpoint400", "handler"} -> "json"
      [] OTHER -> ""

\* headers.forEach into a record: one value stays a string, more are an array
headersToNodeHeaders(hs) == [n \in DOMAIN hs |-> IF Len(hs[n]) = 1 THEN hs[n][1] ELSE hs[n]]

WellKnown == <<"", ".well-known", "openapi.json">>

\* what the adapter has done with res / rep: nothing yet; left the request
\* to the server (next(), or return from the hook); ended the reply; or
\* thrown out of its callback after setting status and headers, if any
NoSent == [kind |-> "none", status |-> 0, headers |-> EmptyRec, body |-> ""]
Passed == [kind |-> "next", status |-> 0, headers |-> EmptyRec, body |-> ""]
Sent(status, hs, body) == [kind |-> "sent", status |-> status, headers |-> hs, body |-> body]
Failed(status, hs) == [kind |-> "failed", status |-> status, headers |-> hs, body |-> ""]

\* new Request(url, {method, headers, body}): express gives a ReadableStream
\* as body for every method, which a runtime may refuse (a GET or HEAD
\* request with a body, a stream body without the duplex option); fastify
\* gives JSON.stringify(req.body)
RequestMade(adapter) == IF adapter = "Router.express" THEN BOOLEAN ELSE {TRUE}

\* ---------------------------------------------------------------- client
\* encodeURIComponent: "/" is escaped, letters, digits and "." are kept
encodeURIComponent(v) == CASE v = "/" -> "%2F" [] OTHER -> v

\* formatPath(path, params): the parts of the path with each parameter
\* part replaced by its encoded value, and the params that are left
formatPath(path, params) ==
    LET names == extractPathParams(path)
    IN  IF \E n \in names : n \notin DOMAIN params
        THEN [threw |-> TRUE, path |-> <<>>, rest |-> EmptyRec]
        ELSE [threw |-> FALSE,
              path |-> [k \in 1..Len(path) |->
                           IF IsParamPart(path[k])
                           THEN encodeURIComponent(params[ParamName(path[k])])
                           ELSE path[k]],
              rest |-> [n \in DOMAIN params \ names |-> params[n]]]

\* the path state of the URL parser: a "." part is dropped, and leaves an
\* empty part when it is the last one
RECURSIVE PathState(_, _)
PathState(parts, i) ==
    IF i > Len(parts) THEN <<>>
    ELSE IF parts[i] = "."
         THEN (IF i = Len(parts) THEN <<"">> ELSE <<>>) \o PathState(parts, i + 1)
         ELSE <<parts[i]>> \o PathState(parts, i + 1)

\* new URL(urlPath, root) for a urlPath that begins with "/": a second
\* slash right after it starts an authority, so that the URL is not one of
\* root (or is no URL at all)
NewURL(urlPath) ==
    IF Len(urlPath) >= 3 /\ urlPath[2] = ""
    THEN [atRoot |-> FALSE, pathname |-> <<"">>]
    ELSE [atRoot |-> TRUE, pathname |-> <<"">> \o PathState(urlPath, 2)]

\* new URLSearchParams(rest).toString() as name=value pairs, and
\* Object.fromEntries(url.searchParams) of the server
FormEncode(v) == CASE v = "/" -> "%2F" [] OTHER -> v
FormDecode(t) == CASE t = "%2F" -> "/" [] OTHER -> t
SearchOf(rest) == [n \in DOMAIN rest |-> FormEncode(rest[n])]
SearchParams(search) == [n \in DOMAIN search |-> FormDecode(search[n])]

NoCall == [route |-> 0, params |-> EmptyRec, result |-> "none"]

\* ----------------------------------------------------------------- state
VARIABLES routes, built, routerPath, op, target, req, resp, invoked, parsed, headers,
          doc, used, sent, call
vars == <<routes, built, routerPath, op, target, req, resp, invoked, parsed, headers,
          doc, used, sent, call>>

NoRequest == Request("", <<"">>, EmptyRec, TRUE)

Start(rs) ==
    /\ routes = rs
    /\ built = NewRouter(rs).ok
    /\ routerPath = NewRouter(rs).trie
    /\ op = "new"
    /\ target = 0
    /\ req = NoRequest
    /\ resp = "none"
    /\ invoked = <<>>
    /\ parsed = <<>>
    /\ headers = EmptyRec
    /\ doc = NoDoc
    /\ used = {}
    /\ sent = NoSent
    /\ call = NoCall

Init == \E rs \in UNION {[1..k -> PlainEndpoints] : k \in 0..MaxRoutes} : Start(rs)

\* the state after a fetch whose handler, when it runs, answers with
\* new TypedResponse(status, body, init)
DeliverWith(name, i, rq, out, init) ==
    /\ op' = name
    /\ target' = i
    /\ req' = rq
    /\ resp' = out.resp
    /\ invoked' = out.invoked
    /\ parsed' = out.parsed
    /\ headers' = HeadersOf(out.resp, init)
    /\ UNCHANGED <<routes, built, routerPath, doc, used, sent, call>>

Deliver(name, i, rq, out) == DeliverWith(name, i, rq, out, NoInit)

\* router.fetch(req)
Fetch(rq, pv, bv) ==
    /\ built
    /\ Deliver("Router.fetch", 0, rq, RouterFetch(routes, routerPath, rq, pv, bv))

\* routes[i].fetch(req), the endpoint called directly
DirectFetch(i, rq, pv, bv) ==
    /\ i \in 1..Len(routes)
    /\ Deliver("Endpoint.fetch", i, rq, EndpointFetch(routes[i], i, rq, pv, bv))

\* router.openapi(extra)
Openapi ==
    /\ built
    /\ op' = "Router.openapi"
    /\ doc' = OpenapiFrom(routes, 1, EmptyRec)
    /\ UNCHANGED <<routes, built, routerPath, target, req, resp, invoked, parsed, headers,
                   used, sent, call>>

\* one request through the callback that router.express(app, options) or
\* router.fastify(server, options) installs; openapi says that
\* options.openapi is given, made that new Request returns
Serve(adapter, openapi, rq, made, pv, bv) ==
    /\ built
    /\ op' = adapter
    /\ target' = 0
    /\ req' = rq
    /\ UNCHANGED <<routes, built, routerPath, call>>
    /\ IF openapi /\ rq.pathname = WellKnown /\ rq.query = EmptyRec
       THEN /\ doc' = OpenapiFrom(routes, 1, EmptyRec)
            /\ sent' = IF doc'.result = "threw" THEN Failed(0, EmptyRec)
                       ELSE Sent(0, [n \in {"content-type"} |-> "application/json"],
                                 "openapi.json")
            /\ resp' = "none" /\ invoked' = <<>> /\ parsed' = <<>> /\ headers' = EmptyRec
            /\ UNCHANGED used
       ELSE IF ~made
       THEN /\ sent' = Failed(0, EmptyRec)
            /\ resp' = "none" /\ invoked' = <<>> /\ parsed' = <<>> /\ headers' = EmptyRec
            /\ UNCHANGED <<doc, used>>
       ELSE LET out == RouterFetch(routes, routerPath, rq, pv, bv)
                hs == HeadersOf(out.resp, NoInit)
            IN  /\ resp' = out.resp
                /\ invoked' = out.invoked
                /\ parsed' = out.parsed
                /\ headers' = hs
                /\ UNCHANGED doc
                /\ CASE out.resp = "rejected" ->
                            sent' = Failed(0, EmptyRec) /\ UNCHANGED used
                     [] out.resp = "notFoundResponse" ->
                            sent' = Passed /\ UNCHANGED used
                     [] out.resp \in used ->
                            \* response.text() rejects: the body was read before
                            /\ sent' = Failed(Status(out.resp), headersToNodeHeaders(hs))
                            /\ UNCHANGED used
                     [] OTHER ->
                            /\ sent' = Sent(Status(out.resp), headersToNodeHeaders(hs),
                                            Body(out.resp))
                            /\ used' = used \cup ({out.resp} \cap Shared)

\* RestClient.do(method, path, params) of a client of this router, for the
\* method and path of routes[i]; its fetch is the router's
ClientDo(i, params, strict, pv) ==
    /\ built
    /\ i \in 1..Len(routes)
    /\ op' = "RestClient.do"
    /\ target' = 0
    /\ UNCHANGED <<routes, built, routerPath, doc, used, sent>>
    /\ LET f == formatPath(routes[i].path, params)
           url == NewURL(f.path)
           rq == Request(routes[i].method, url.pathname, SearchParams(SearchOf(f.rest)), TRUE)
           out == RouterFetch(routes, routerPath, rq, pv, "ok")
           hs == HeadersOf(out.resp, NoInit)
       IN  IF f.threw \/ ~url.atRoot
           THEN /\ call' = [route |-> i, params |-> params,
                            result |-> IF f.threw THEN "Missing path parameter"
                                       ELSE "no request to root"]
                /\ req' = NoRequest
                /\ resp' = "none" /\ invoked' = <<>> /\ parsed' = <<>> /\ headers' = EmptyRec
           ELSE /\ call' = [route |-> i, params |-> params,
                            result |-> IF out.resp = "rejected" THEN "rejected"
                                       ELSE IF strict /\ StrictRejects(hs)
                                       THEN "X-ZREST header is missing"
                                       ELSE "response"]
                /\ req' = rq
                /\ resp' = out.resp
                /\ invoked' = out.invoked
                /\ parsed' = out.parsed
                /\ headers' = hs

Express(openapi, rq, made, pv, bv) == Serve("Router.express", openapi, rq, made, pv, bv)

Fastify(openapi, rq, pv, bv) == Serve("Router.fastify", openapi, rq, TRUE, pv, bv)

\* the parses a request reaches when every parse before them returns
Reached(out, schema) == \E k \in 1..Len(out.parsed) : out.parsed[k].schema = schema
VerdictsOf(out, schema) == IF Reached(out, schema) THEN Verdicts ELSE {"ok"}

\* ------------------------------------------- routers of up to MaxRoutes routes
Next ==
    \E rq \in PlainRequests :
        \E pv \in VerdictsOf(RouterFetch(routes, routerPath, rq, "ok", "ok"), "params") :
            Fetch(rq, pv, "ok")

Spec == Init /\ [][Next]_vars

\* ------------------------------------- routers of up to MaxGetRoutes GET routes
MaxGetRoutes == 3
GetEndpoints == {e \in PlainEndpoints : e.method = "GET"}
GetRequests == {r \in PlainRequests : r.method = "GET"}

InitGet == \E rs \in UNION {[1..k -> GetEndpoints] : k \in 0..MaxGetRoutes} : Start(rs)

NextGet ==
    \E rq \in GetRequests :
        \E pv \in VerdictsOf(RouterFetch(routes, routerPath, rq, "ok", "ok"), "params")
                       \cap {"ok", "ZodError"} :
            Fetch(rq, pv, "ok")

SpecGet == InitGet /\ [][NextGet]_vars

\* ------------------------------------------------ one endpoint called directly
EndpointSegs == {"a", ":x", ":y"}
EndpointTokens == {"", "a", "%63"}
EndpointPaths == {<<"">> \o s : s \in SeqsUpTo(EndpointSegs, MaxSegs)}
EndpointPathnames == {<<"">> \o s : s \in SeqsUpTo(EndpointTokens, MaxSegs)}
EndpointQueries == {EmptyRec} \cup {[n \in {k} |-> "7"] : k \in QueryKeys}

ParamsSchemas(path) ==
    {NoSchema, ZObject({}), ZObject(extractPathParams(path))}

RichEndpoints ==
    UNION {{Endpoint("POST", p, s, b) : s \in ParamsSchemas(p), b \in BOOLEAN} :
           p \in EndpointPaths}

EndpointRequests ==
    {Request("POST", p, q, j) : p \in EndpointPathnames, q \in EndpointQueries, j \in BOOLEAN}

InitEndpoint ==
    \E e \in RichEndpoints : Start(<<e>>)

NextEndpoint ==
    \E rq \in EndpointRequests :
        \E pv \in VerdictsOf(EndpointFetch(routes[1], 1, rq, "ok", "ok"), "params") :
            \E bv \in VerdictsOf(EndpointFetch(routes[1], 1, rq, pv, "ok"), "body") :
                DirectFetch(1, rq, pv, bv)

SpecEndpoint == InitEndpoint /\ [][NextEndpoint]_vars

\* ------------------------------------- one endpoint and its response headers
\* routes[i].fetch(req) with a handler that gives init to its response
RespondingFetch(i, rq, pv, bv, init) ==
    /\ i \in 1..Len(routes)
    /\ DeliverWith("Endpoint.fetch", i, rq, EndpointFetch(routes[i], i, rq, pv, bv), init)

MarkerRequests == {Request("POST", p, EmptyRec, j) : p \in EndpointPathnames, j \in BOOLEAN}

NextMarker ==
    \E rq \in MarkerRequests :
        \E pv \in VerdictsOf(EndpointFetch(routes[1], 1, rq, "ok", "ok"), "params") :
            \E bv \in VerdictsOf(EndpointFetch(routes[1], 1, rq, pv, "ok"), "body") :
                \E init \in (IF EndpointFetch(routes[1], 1, rq, pv, bv).resp = "handler"
                              THEN ResponseInits ELSE {NoInit}) :
                    RespondingFetch(1, rq, pv, bv, init)

SpecMarker == InitEndpoint /\ [][NextMarker]_vars

\* --------------------------------------- routers that are asked for a document
\* endpoints constructed with or without the outputSchema argument
OpenapiSchemas(path) == {NoSchema, ZObject(extractPathParams(path) \cup {"q"})}
OpenapiOutputs == {NoOutput, OutputSchema({200})}

OpenapiEndpoints ==
    UNION {{[Endpoint(m, p, s, FALSE) EXCEPT !.output = o] :
                m \in Methods, s \in OpenapiSchemas(p), o \in OpenapiOutputs} :
           p \in EndpointPaths}

OpenapiRequests ==
    {Request(m, p, EmptyRec, TRUE) : m \in Methods, p \in {<<"", "a">>, <<"", "a", "a">>}}

InitOpenapi == \E rs \in UNION {[1..k -> OpenapiEndpoints] : k \in 0..MaxRoutes} : Start(rs)

NextOpenapi ==
    \/ Openapi
    \/ \E rq \in OpenapiRequests :
           \E pv \in VerdictsOf(RouterFetch(routes, routerPath, rq, "ok", "ok"), "params")
                        \cap {"ok", "ZodError"} :
               Fetch(rq, pv, "ok")

SpecOpenapi == InitOpenapi /\ [][NextOpenapi]_vars

\* ------------------------------------------ routers behind express and fastify
AdapterEndpoints ==
    {e \in PlainEndpoints : e.path \in {<<"", "a">>, <<"", ":x">>, <<"", "a", "b">>}}

AdapterRequests ==
    {Request(m, p, EmptyRec, TRUE) :
         m \in Methods, p \in {<<"", "a">>, <<"", "a", "b">>, <<"", "b", "a">>, WellKnown}}

InitAdapter == \E rs \in UNION {[1..k -> AdapterEndpoints] : k \in 0..MaxRoutes} : Start(rs)

NextAdapter ==
    \E rq \in AdapterRequests, openapi \in BOOLEAN :
        \E pv \in VerdictsOf(RouterFetch(routes, routerPath, rq, "ok", "ok"), "params") :
            \/ \E made \in RequestMade("Router.express") : Express(openapi, rq, made, pv, "ok")
            \/ Fastify(openapi, rq, pv, "ok")

SpecAdapter == InitAdapter /\ [][NextAdapter]_vars

\* ------------------------------------------------- routers and their client
ClientPaths ==
    {<<"", ":x">>, <<"", "a", ":x">>, <<"", ":x", "a">>, <<"", "a", "a">>, <<"", ":x", ":y">>}
ClientEndpoints ==
    {Endpoint("GET", p, ZObject(extractPathParams(p) \cup {"q"}), FALSE) : p \in ClientPaths}

\* params records: any of x, y and q, with a value of its own alphabet
ClientVals == [x |-> {"a", "", "/", "."}, y |-> {"a", "/"}, q |-> {"7"}]
ClientParams ==
    {ps \in UNION {[names -> {"a", "", "/", ".", "7"}] : names \in SUBSET {"x", "y", "q"}} :
         \A n \in DOMAIN ps : ps[n] \in ClientVals[n]}

InitClient == \E rs \in UNION {[1..k -> ClientEndpoints] : k \in 0..MaxRoutes} : Start(rs)

NextClient ==
    \E i \in 1..Len(routes), params \in ClientParams :
        \E strict \in BOOLEAN, pv \in {"ok", "ZodError"} :
            ClientDo(i, params, strict, pv)

SpecClient == InitClient /\ [][NextClient]_vars

\* ================================================================ claims
\* the parts of a route pattern and of a request path
PatternOf(i) == cleanPath(routes[i].path)
PartsOf(rq) == cleanPath(rq.pathname)

\* a request path matches a pattern: same number of segments, literals
\* equal, parameters bound to the tokens
Matches(pattern, parts) ==
    /\ Len(pattern) = Len(parts)
    /\ \A k \in 1..Len(pattern) : IsParamPart(pattern[k]) \/ pattern[k] = parts[k]

\* the same, every parameter bound to a non-empty token
MatchesNonEmpty(pattern, parts) ==
    /\ Matches(pattern, parts)
    /\ \A k \in 1..Len(pattern) : IsParamPart(pattern[k]) => parts[k] # ""

AllParsesOk == \A k \in 1..Len(parsed) : parsed[k].verdict = "ok"
ParsedOk(schema) ==
    \E k \in 1..Len(parsed) : parsed[k].schema = schema /\ parsed[k].verdict = "ok"
Routed == op = "Router.fetch"
Direct == op = "Endpoint.fetch"

\* C1: a request whose method and path match a registered route, with
\* schema-valid input, makes Router.fetch invoke exactly one handler.
C1_ExactlyOneHandler ==
    (/\ Routed
     /\ AllParsesOk
     /\ \E i \in 1..Len(routes) :
            routes[i].method = req.method /\ MatchesNonEmpty(PatternOf(i), PartsOf(req)))
    => (Len(invoked) = 1 /\ resp = "handler")

\* routes i and j have the same method and patterns that differ only at
\* depth d, where i has a literal and j a parameter
LiteralVsParam(i, j, d) ==
    /\ routes[i].method = routes[j].method
    /\ Len(PatternOf(i)) = Len(PatternOf(j))
    /\ d \in 1..Len(PatternOf(i))
    /\ ~IsParamPart(PatternOf(i)[d])
    /\ IsParamPart(PatternOf(j)[d])
    /\ \A k \in 1..Len(PatternOf(i)) : k # d => PatternOf(i)[k] = PatternOf(j)[k]

Pairs ==
    {p \in (1..Len(routes)) \X (1..Len(routes)) \X (1..MaxSegs) : LiteralVsParam(p[1], p[2], p[3])}

\* C2 as stated: a request matching the literal route of such a pair is
\* always dispatched to the literal route's handler.
C2_LiteralRouteHandles ==
    Routed /\ AllParsesOk =>
        \A p \in Pairs :
            (req.method = routes[p[1]].method /\ Matches(PatternOf(p[1]), PartsOf(req)))
            => (Len(invoked) = 1 /\ invoked[1].route = p[1])

\* C2 as amended: a request whose token at the depth equals the literal is
\* never dispatched to the parameter route's handler, and when the pair are
\* the only routes a request matching the literal route reaches its handler.
C2_LiteralBeatsParam ==
    Routed =>
        \A p \in Pairs :
            /\ (Len(PartsOf(req)) >= p[3] /\ PartsOf(req)[p[3]] = PatternOf(p[1])[p[3]])
               => \A k \in 1..Len(invoked) : invoked[k].route # p[2]
            /\ (/\ Len(routes) = 2
                /\ AllParsesOk
                /\ req.method = routes[p[1]].method
                /\ Matches(PatternOf(p[1]), PartsOf(req)))
               => (Len(invoked) = 1 /\ invoked[1].route = p[1])

C2_Witness ==
    /\ Routed
    /\ Len(routes) = 3
    /\ \E p \in Pairs :
        /\ Matches(PatternOf(p[1]), PartsOf(req))
        /\ Matches(PatternOf(p[2]), PartsOf(req))
        /\ Len(invoked) = 1
        /\ invoked[1].route = p[1]
        /\ p[1] > p[2]

C4_NoMatchIsNotFound ==
    (Routed /\ \A i \in 1..Len(routes) : ~Matches(PatternOf(i), PartsOf(req)))
    => (resp = "notFoundResponse" /\ invoked = <<>> /\ parsed = <<>>)

\* C5: a request whose path matches a registered pattern and whose method
\* is registered for no pattern the path matches gets MethodNotAllowed, never
\* NotFound, and no handler call.
C5_MethodNotAllowed ==
    (/\ Routed
     /\ \E i \in 1..Len(routes) : MatchesNonEmpty(PatternOf(i), PartsOf(req))
     /\ \A i \in 1..Len(routes) :
            Matches(PatternOf(i), PartsOf(req)) => routes[i].method # req.method)
    => (resp = "methodNotAllowedResponse" /\ invoked = <<>>)

\* two patterns identical once parameter names are erased
SamePattern(p, q) ==
    /\ Len(p) = Len(q)
    /\ \A k \in 1..Len(p) :
           \/ IsParamPart(p[k]) /\ IsParamPart(q[k])
           \/ ~IsParamPart(p[k]) /\ ~IsParamPart(q[k]) /\ p[k] = q[k]

Duplicates ==
    \E i, j \in 1..Len(routes) :
        i < j /\ routes[i].method = routes[j].method /\ SamePattern(PatternOf(i), PatternOf(j))

\* the node a pattern ends at: a literal descends by its text, a parameter by null
TerminalOf(i) ==
    [k \in 1..Len(PatternOf(i)) |->
        IF IsParamPart(PatternOf(i)[k]) THEN NullKey ELSE PatternOf(i)[k]]

ParamChildren(n) ==
    {c \in DOMAIN routerPath :
        Len(c) = Len(n) + 1 /\ SubSeq(c, 1, Len(n)) = n /\ c[Len(c)] \notin Literals}

\* C6: construction throws exactly when two routes share method and erased
\* pattern; otherwise every route is stored under its own method at the
\* terminal node of its own path, no entry is overwritten, every entry is a
\* route that ends there, and a node has at most one parameter child.
C6_FailFastOnDuplicates ==
    /\ built <=> ~Duplicates
    /\ built =>
        /\ \A i \in 1..Len(routes) :
            /\ TerminalOf(i) \in DOMAIN routerPath
            /\ routes[i].method \in DOMAIN routerPath[TerminalOf(i)]
            /\ routerPath[TerminalOf(i)][routes[i].method] = i
        /\ \A n \in DOMAIN routerPath :
            /\ \A m \in DOMAIN routerPath[n] :
                /\ routerPath[n][m] \in 1..Len(routes)
                /\ TerminalOf(routerPath[n][m]) = n
                /\ routes[routerPath[n][m]].method = m
            /\ Cardinality(ParamChildren(n)) <= 1

C6_Witness ==
    /\ ~built
    /\ Len(routes) = 2
    /\ routes[1].path # routes[2].path
    /\ routes[1].method = routes[2].method

\* C7: no dispatch runs against a route one of whose path parameters has no
\* field in its params schema.
C7_PathParamsDeclared ==
    \A k \in 1..Len(invoked) :
        \A n \in extractPathParams(routes[invoked[k].route].path) :
            /\ routes[invoked[k].route].params.declared
            /\ n \in routes[invoked[k].route].params.fields

\* C8: in the record passed to the params schema every path parameter has
\* the value captured from the path, also when the query has the same key,
\* and the other query keys are passed through unchanged.
C8_PathParamsTakePrecedence ==
    Direct =>
        \A k \in 1..Len(parsed) : parsed[k].schema = "params" =>
            LET input == parsed[k].input
                pattern == PatternOf(target)
                names == extractPathParams(routes[target].path)
            IN  /\ DOMAIN input = names \cup DOMAIN req.query
                /\ \A i \in 1..Len(pattern) :
                       (/\ IsParamPart(pattern[i])
                        /\ \A j \in (i + 1)..Len(pattern) : pattern[j] # pattern[i])
                       => input[ParamName(pattern[i])]
                              = decodeURIComponent(At(PartsOf(req), i))
                /\ \A q \in DOMAIN req.query \ names : input[q] = req.query[q]
                /\ \A c \in 1..Len(invoked) : \A n \in names :
                       invoked[c].pathParams[n] = input[n]

C8_Witness ==
    /\ Direct
    /\ invoked # <<>>
    /\ \E k \in 1..Len(parsed) :
        /\ parsed[k].schema = "params"
        /\ "x" \in DOMAIN req.query
        /\ "x" \in extractPathParams(routes[target].path)
        /\ parsed[k].input["x"] = "c"
        /\ req.query["x"] = "7"

\* C9: Endpoint.fetch matches only a request path with exactly as many
\* segments as the pattern; any other length gives its 404 and no parameter
\* record.
C9_SegmentCountExact ==
    (Direct /\ Len(PartsOf(req)) # Len(PatternOf(target)))
    => (resp = "endpoint404" /\ invoked = <<>> /\ parsed = <<>>)

\* C10: no handler reached through Router.fetch is invoked with an
\* empty-string captured path parameter.
C10_NoEmptyCapture ==
    Routed =>
        \A k \in 1..Len(invoked) :
            \A n \in DOMAIN invoked[k].pathParams : invoked[k].pathParams[n] # ""

\* C11: every response of Endpoint.fetch for a matched route, a handler's
\* TypedResponse or the endpoint's own 400, carries X-ZREST with the value
\* "1", so that a strict client does not reject it.
C11_MarkerOnEveryResponse ==
    (Direct /\ resp \in {"handler", "endpoint400"})
    => (/\ ~StrictRejects(headers)
        /\ headers["x-zrest"] = <<"1">>)

\* the operation the document holds for route i
Documents == op = "Router.openapi" /\ doc.result = "returned"
OperationOf(i) == doc.paths[pathToOpenAPIPath(routes[i].path)][lowercase(routes[i].method)]
Listed(ps, name) == {k \in 1..Len(ps) : ps[k].name = name}

\* C12: in the document Router.openapi returns, every path parameter of a
\* route's pattern is listed exactly once with in = "path", and every other
\* field of the params schema exactly once with in = "query".
C12_ParametersClassified ==
    Documents =>
        \A i \in 1..Len(routes) :
            LET ps == OperationOf(i).parameters
                pathParams == extractPathParams(routes[i].path)
            IN  /\ \A n \in pathParams :
                       \E k \in 1..Len(ps) : Listed(ps, n) = {k} /\ ps[k].in = "path"
                /\ \A n \in routes[i].params.fields \ pathParams :
                       \E k \in 1..Len(ps) : Listed(ps, n) = {k} /\ ps[k].in = "query"

\* C13: Router.openapi throws whenever a route has no output schema; the
\* call changes neither the route list nor the trie, and every dispatch,
\* also one after a failed call and to the route without output schema,
\* is the dispatch of the router as it was constructed.
C13_GenerationFailureConfined ==
    /\ [][op' = "Router.openapi" =>
              /\ routes' = routes /\ routerPath' = routerPath /\ built' = built
              /\ ((\E i \in 1..Len(routes) : ~routes[i].output.declared)
                     => doc'.result = "threw")]_vars
    /\ [](/\ routerPath = NewRouter(routes).trie
          /\ Routed =>
                 \E pv \in Verdicts :
                     RouterFetch(routes, NewRouter(routes).trie, req, pv, "ok")
                         = Outcome(resp, invoked, parsed))

C13_Witness ==
    /\ Routed
    /\ doc.result = "threw"
    /\ invoked # <<>>
    /\ ~routes[invoked[1].route].output.declared

\* each parameter part written in braces
Braced(path) ==
    [k \in 1..Len(path) |-> IF IsParamPart(path[k]) THEN Brace(path[k]) ELSE path[k]]

\* C14: the key of every route in the document's paths is the route path
\* with each parameter part ':name' rewritten to '{name}' and each literal
\* part unchanged, so that no key keeps a ':'-prefixed part.
C14_EveryParameterBraced ==
    Documents =>
        /\ \A i \in 1..Len(routes) : Braced(routes[i].path) \in DOMAIN doc.paths
        /\ \A key \in DOMAIN doc.paths : \A k \in 1..Len(key) : ~IsParamPart(key[k])

Adapted == op \in {"Router.express", "Router.fastify"}

\* C15: through the express or fastify adapter, every request that the
\* router dispatches to a node of the trie without its method is answered
\* with status 405 and the body "Method Not Allowed", whatever was served
\* before, and the trie is the one the constructor built.
C15_EveryMethodMissAnswered ==
    /\ built => routerPath = NewRouter(routes).trie
    /\ (Adapted /\ resp = "methodNotAllowedResponse") =>
           (sent.kind = "sent" /\ sent.status = 405 /\ sent.body = "Method Not Allowed")

\* C16: a call of the client for the route routes[i] with a params record
\* that has a string for every path parameter reaches the params schema of
\* that route with a merged record equal to the params record, and its
\* handler when the schema accepts; a params record without one of the
\* path parameters makes the client throw and no request is sent.
C16_RoundTrip ==
    (op = "RestClient.do") =>
        IF \E n \in extractPathParams(routes[call.route].path) : n \notin DOMAIN call.params
        THEN call.result = "Missing path parameter" /\ resp = "none" /\ req = NoRequest
        ELSE /\ parsed # <<>>
             /\ parsed[1].schema = "params"
             /\ parsed[1].input = call.params
             /\ parsed[1].verdict = "ok" =>
                    (invoked # <<>> /\ invoked[1].route = call.route)

====
